---- MODULE Spec2Model ----
(***************************************************************************)
(* A model of src/ttt.py: the APIClient (an authenticated GET wrapper over *)
(* one httpx.AsyncClient), its six public operations, its close / scope    *)
(* lifecycle, and the from_dict constructors of the response records.      *)
(*                                                                         *)
(* Strings are TLA+ strings (f-strings are \o); a JSON object or a Python  *)
(* dict is a function over its keys; a JSON array or a list is a sequence. *)
(* The constructor's url argument is a sequence of characters, so that     *)
(* rstrip("/") is computed and not assumed.                                *)
(*                                                                         *)
(* httpx.AsyncClient is a library the source calls, not code under src/.   *)
(* The three facts about it the model uses are its documented behaviour:   *)
(*   - a client whose state is CLOSED refuses to send (RuntimeError), any  *)
(*     other client sends and becomes OPENED;                              *)
(*   - aclose() closes the transport only if the state is not CLOSED yet,  *)
(*     and sets the state to CLOSED;                                       *)
(*   - Response.raise_for_status() raises HTTPStatusError unless the       *)
(*     status is 2xx, and Response.json() raises on an undecodable body.   *)
(***************************************************************************)
EXTENDS Integers, Sequences, FiniteSets, TLC

\* ---------------------------------------------------------------- bounds

\* Number of coroutines that may run an operation at the same time (SpecConc).
MaxCalls == 2
\* Longest "datasources" / "pipes" array a response carries.
MaxEntries == 2
\* Number of manual close() calls in a behaviour.
MaxCloses == 2
\* Number of scope entries (async with) in a behaviour.
MaxScopes == 2

\* ------------------------------------------------------- dicts and lists

\* An empty dict ({}), also an absent value.
Empty == <<>>

\* d[k] = v on a dict: the key is added, or its value overwritten.
SetKey(d, k, v) == [x \in DOMAIN d \cup {k} |-> IF x = k THEN v ELSE d[x]]

\* The dict d without key k.
DropKey(d, k) == [x \in DOMAIN d \ {k} |-> d[x]]

\* Every sequence over S of length at most n.
SeqsUpTo(S, n) == UNION {[1..k -> S] : k \in 0..n}

\* Optional[Dict]: None, or a dict.
None == [isNone |-> TRUE, dict |-> Empty]
Some(d) == [isNone |-> FALSE, dict |-> d]

\* The outcome of a Python expression: a value, or a raised exception.
NoError == [type |-> "", status |-> 0]
Ok(v) == [ok |-> TRUE, value |-> v, error |-> NoError]
Raise(t) == [ok |-> FALSE, value |-> Empty, error |-> [type |-> t, status |-> 0]]

\* ------------------------------------------------------ the constructor

\* str.rstrip("/"): every trailing "/" is removed.
RECURSIVE rstrip(_)
rstrip(s) ==
  IF s = <<>> THEN <<>>
  ELSE IF s[Len(s)] = "/" THEN rstrip(SubSeq(s, 1, Len(s) - 1))
  ELSE s

\* The characters of s as one string.
RECURSIVE Str(_)
Str(s) == IF s = <<>> THEN "" ELSE Head(s) \o Str(Tail(s))

\* A variant of the constructor that strips one trailing "/" at most.
init_api_url_strip_one(api_url_arg) ==
  Str(IF api_url_arg # <<>> /\ api_url_arg[Len(api_url_arg)] = "/"
      THEN SubSeq(api_url_arg, 1, Len(api_url_arg) - 1)
      ELSE api_url_arg)

\* APIClient.__init__: self.api_url.
init_api_url(api_url_arg) == Str(rstrip(api_url_arg))

\* The url arguments given to the constructor.
Urls == { <<"a">>, <<"a", "/", "/">>, <<"a", "/", "b", "/">> }

\* The token arguments given to the constructor.
Tokens == {"tk1", "tk2"}

\* ------------------------------------------------- the public operations

Ops ==
  {"list_data_sources", "get_data_source", "list_pipes", "get_pipe",
   "get_pipe_data", "run_select_query"}

\* The positional argument of each operation ("" for the two that take none).
Args(op) ==
  CASE op = "get_data_source" -> {"abc", "t_745"}
    [] op = "get_pipe" -> {"p", "endpoint_to_paginate"}
    [] op = "get_pipe_data" -> {"p", "endpoint_to_paginate"}
    [] op = "run_select_query" -> {"SELECT 1", "SELECT * FROM t LIMIT 10"}
    [] OTHER -> {""}

\* The keyword arguments (**params) of get_pipe_data; no other operation takes any.
Kwargs(op) ==
  IF op = "get_pipe_data"
  THEN {Empty, [year |-> "2024"], [token |-> "evil"],
        [year |-> "2024", token |-> "evil"]}
  ELSE {Empty}

\* Each operation's call of _get: the endpoint and the params argument.
list_data_sources ==
  [endpoint |-> "v0/datasources",
   params |-> Some([attrs |-> "id,name,description,columns"])]

get_data_source(datasource_id) ==
  [endpoint |-> "v0/datasources/" \o datasource_id,
   params |-> Some([debug |-> "columns", include_workspace_names |-> "true"])]

list_pipes ==
  [endpoint |-> "v0/pipes",
   params |-> Some([attrs |-> "id,name,description,type,endpoint"])]

get_pipe(pipe_name) == [endpoint |-> "v0/pipes/" \o pipe_name, params |-> None]

get_pipe_data(pipe_name, params) ==
  [endpoint |-> "v0/pipes/" \o pipe_name \o ".json", params |-> Some(params)]

\* A variant of run_select_query that sends the query as it is.
run_select_query_as_is(query) ==
  [endpoint |-> "v0/sql", params |-> Some([q |-> query])]

run_select_query(query) ==
  [endpoint |-> "v0/sql", params |-> Some([q |-> query \o " FORMAT JSON"])]

GetCall(op, arg, kw) ==
  CASE op = "list_data_sources" -> list_data_sources
    [] op = "get_data_source" -> get_data_source(arg)
    [] op = "list_pipes" -> list_pipes
    [] op = "get_pipe" -> get_pipe(arg)
    [] op = "get_pipe_data" -> get_pipe_data(arg, kw)
    [] op = "run_select_query" -> run_select_query(arg)

\* A variant of get_params that keeps a token the caller supplied.
get_params_setdefault(params, tok) ==
  LET d == IF params.isNone THEN Empty ELSE params.dict
  IN IF "token" \in DOMAIN d THEN d ELSE SetKey(d, "token", tok)

\* _get, before the request: params defaults to {} and receives the token.
get_params(params, tok) ==
  SetKey(IF params.isNone THEN Empty ELSE params.dict, "token", tok)

\* _get: the url of the request.
get_url(base, endpoint) == base \o "/" \o endpoint

\* httpx: a client sends unless it has been closed.
CanSend(st) == st # "CLOSED"

\* httpx: the exception of a send on a closed client.
ClosedError == [type |-> "RuntimeError", status |-> 0]

\* ------------------------------------------------------ the record types

\* The fields of each dataclass (none has a default, so each is required).
ColumnFields ==
  {"name", "type", "codec", "default_value", "jsonpath", "nullable",
   "normalized_name"}

EngineFields ==
  {"engine", "engine_sorting_key", "engine_partition_key", "engine_primary_key"}

PipeFields == {"type", "id", "name", "description", "endpoint", "url"}

PipeDataFields == {"meta", "data", "rows", "statistics"}

\* A variant of cls(**data) that ignores the keys that are not fields.
ConstructIgnoringExtra(fields, data) ==
  IF fields \subseteq DOMAIN data
  THEN Ok([f \in fields |-> data[f]])
  ELSE Raise("TypeError")

\* cls(**data) of a dataclass with the given fields: a TypeError unless the
\* keys of data are exactly the fields (one missing, or one unexpected).
Construct(fields, data) ==
  IF DOMAIN data = fields
  THEN Ok([f \in fields |-> data[f]])
  ELSE Raise("TypeError")

Column(data) == Construct(ColumnFields, data)

Engine(data) == Construct(EngineFields, data)

\* DataSource.from_dict: the engine, then the columns, then the five keys read
\* by subscript (a KeyError when absent); any other key of data is not read.
DataSource_from_dict(data) ==
  IF "engine" \notin DOMAIN data THEN Raise("KeyError")
  ELSE IF ~Engine(data["engine"]).ok THEN Raise("TypeError")
  ELSE IF "columns" \notin DOMAIN data THEN Raise("KeyError")
  ELSE IF \E i \in DOMAIN data["columns"] : ~Column(data["columns"][i]).ok
       THEN Raise("TypeError")
  ELSE IF ~({"id", "name", "indexes", "new_columns_detected", "quarantine_rows"}
              \subseteq DOMAIN data)
       THEN Raise("KeyError")
  ELSE Ok([id |-> data["id"],
           name |-> data["name"],
           engine |-> Engine(data["engine"]).value,
           columns |-> [i \in DOMAIN data["columns"] |->
                          Column(data["columns"][i]).value],
           indexes |-> data["indexes"],
           new_columns_detected |-> data["new_columns_detected"],
           quarantine_rows |-> data["quarantine_rows"]])

Pipe_from_dict(data) == Construct(PipeFields, data)

PipeData_from_dict(data) == Construct(PipeDataFields, data)

\* A variant of the comprehension that skips the elements that raise.
RECURSIVE ComprehensionSkipping(_)
ComprehensionSkipping(outs) ==
  IF outs = <<>> THEN Ok(<<>>)
  ELSE LET rest == ComprehensionSkipping(Tail(outs)).value
       IN IF Head(outs).ok THEN Ok(<<Head(outs).value>> \o rest) ELSE Ok(rest)

\* [f(x) for x in xs] where f is given by its outcomes: the first exception
\* raised ends the comprehension, otherwise the values in order.
Comprehension(outs) ==
  IF \E i \in DOMAIN outs : ~outs[i].ok
  THEN LET first == CHOOSE i \in DOMAIN outs :
                      /\ ~outs[i].ok
                      /\ \A j \in DOMAIN outs : j < i => outs[j].ok
       IN Raise(outs[first].error.type)
  ELSE Ok([i \in DOMAIN outs |-> outs[i].value])

\* What each operation does with the decoded body that _get returned.
Wrap(op, json) ==
  CASE op = "list_data_sources" ->
         IF "datasources" \notin DOMAIN json THEN Raise("KeyError")
         ELSE Comprehension([i \in DOMAIN json["datasources"] |->
                               DataSource_from_dict(json["datasources"][i])])
    [] op = "list_pipes" ->
         IF "pipes" \notin DOMAIN json THEN Raise("KeyError")
         ELSE Comprehension([i \in DOMAIN json["pipes"] |->
                               Pipe_from_dict(json["pipes"][i])])
    [] op = "get_pipe_data" -> PipeData_from_dict(json)
    [] OTHER -> Ok(json)

\* httpx Response.is_success.
is_success(status) == status >= 200 /\ status <= 299

\* A variant of get_result that decodes the body before it checks the status.
get_result_decode_first(response) ==
  IF ~response.valid THEN Raise("JSONDecodeError")
  ELSE IF ~is_success(response.status)
  THEN [ok |-> FALSE, value |-> Empty,
        error |-> [type |-> "HTTPStatusError", status |-> response.status]]
  ELSE Ok(response.json)

\* _get, after the response: raise_for_status(), then json().
get_result(response) ==
  IF ~is_success(response.status)
  THEN [ok |-> FALSE, value |-> Empty,
        error |-> [type |-> "HTTPStatusError", status |-> response.status]]
  ELSE IF ~response.valid THEN Raise("JSONDecodeError")
  ELSE Ok(response.json)

\* An operation from the response on: _get's result, then the wrapper.
Complete(op, response) ==
  LET got == get_result(response)
  IN IF got.ok THEN Wrap(op, got.value) ELSE got

\* ------------------------------------------------- what a server may send

EngineJson ==
  [engine |-> "MergeTree", engine_sorting_key |-> "id",
   engine_partition_key |-> "", engine_primary_key |-> "id"]

ColumnJson(n) ==
  [name |-> n, type |-> "String", codec |-> "null", default_value |-> "null",
   jsonpath |-> "$." \o n, nullable |-> "false", normalized_name |-> n]

DataSourceJson(id) ==
  [id |-> id, name |-> "ds_" \o id, engine |-> EngineJson,
   columns |-> <<ColumnJson("c1"), ColumnJson("c2")>>,
   indexes |-> <<>>, new_columns_detected |-> Empty, quarantine_rows |-> "0"]

PipeJson(id) ==
  [type |-> "endpoint", id |-> id, name |-> "pipe_" \o id,
   description |-> "null", endpoint |-> "null", url |-> "u/" \o id]

PipeDataJson ==
  [meta |-> <<[name |-> "year", type |-> "Int32"]>>,
   data |-> <<[year |-> "2024"]>>, rows |-> "1",
   statistics |-> [elapsed |-> "0.01"]]

\* Elements of a "datasources" array: two well-formed ones, and one for each way
\* of missing a field or carrying one more, at each level.
DataSourceEntries ==
  LET d == DataSourceJson("d1")
  IN {d, DataSourceJson("d2"),
      DropKey(d, "quarantine_rows"),
      SetKey(d, "description", "text"),
      [d EXCEPT !["engine"] = DropKey(@, "engine_primary_key")],
      [d EXCEPT !["engine"] = SetKey(@, "engine_ttl", "null")],
      [d EXCEPT !["columns"] = <<ColumnJson("c1"), DropKey(ColumnJson("c2"), "codec")>>],
      [d EXCEPT !["columns"] = <<SetKey(ColumnJson("c1"), "auto", "false")>>]}

PipeEntries ==
  {PipeJson("p1"), PipeJson("p2"), DropKey(PipeJson("p1"), "url"),
   SetKey(PipeJson("p1"), "updated_at", "now")}

\* The JSON bodies a server may answer an operation with.
Jsons(op) ==
  CASE op = "list_data_sources" ->
         {[datasources |-> s] : s \in SeqsUpTo(DataSourceEntries, MaxEntries)}
           \cup {[error |-> "no such workspace"]}
    [] op = "list_pipes" ->
         {[pipes |-> s] : s \in SeqsUpTo(PipeEntries, MaxEntries)}
           \cup {[error |-> "no such workspace"]}
    [] op = "get_pipe_data" ->
         {PipeDataJson, DropKey(PipeDataJson, "statistics"),
          SetKey(PipeDataJson, "rows_before_limit_at_least", "1")}
    [] OTHER -> {[id |-> "x", name |-> "y"], [error |-> "not found"]}

Statuses == {200, 404, 500}

\* A response: its status, whether its body decodes as JSON, and the JSON.
Undecodable(status) == [status |-> status, valid |-> FALSE, json |-> Empty]

Responses(op) ==
  {Undecodable(s) : s \in Statuses}
    \cup {[status |-> 200, valid |-> TRUE, json |-> j] : j \in Jsons(op)}
    \cup {[status |-> s, valid |-> TRUE, json |-> CHOOSE j \in Jsons(op) : Wrap(op, j).ok] :
            s \in Statuses \ {200}}

\* -------------------------------------------------------------- the state

VARIABLES
  ctor_url,      \* the api_url argument the constructor received
  api_url,       \* self.api_url
  token,         \* self.token
  client,        \* self.client: the httpx client's state
  released,      \* how many times the connection resource has been released
  depth,         \* managed scopes entered and not yet exited
  bound,         \* what the latest scope entry returned
  exitKind,      \* the latest scope exit: how the body ended, the state it found
  closeCalls,    \* manual close() calls so far
  scopeEntries,  \* scope entries so far
  scopeExits,    \* scope exits so far
  calls,         \* each coroutine's operation, where it stands and its outcome
  net            \* the requests sent and not yet answered

vars ==
  <<ctor_url, api_url, token, client, released, depth, bound, exitKind,
    closeCalls, scopeEntries, scopeExits, calls, net>>

\* The client object.
Self == "APIClient"

\* A coroutine that runs no operation.
Idle ==
  [pc |-> "idle", op |-> "", arg |-> "", kw |-> Empty, url |-> "",
   params |-> Empty, sent |-> 0, response |-> Undecodable(0),
   result |-> Empty, error |-> NoError]

\* The coroutine of a sequential caller such as main().
SeqCalls == {1}

\* APIClient.__init__: no request; the httpx client is created, not opened.
Init ==
  /\ ctor_url \in Urls
  /\ api_url = init_api_url(ctor_url)
  /\ token \in Tokens
  /\ client = "UNOPENED"
  /\ released = 0
  /\ depth = 0
  /\ bound = ""
  /\ exitKind = [how |-> "", found |-> ""]
  /\ closeCalls = 0
  /\ scopeEntries = 0
  /\ scopeExits = 0
  /\ calls = [c \in 1..MaxCalls |-> Idle]
  /\ net = {}

\* ------------------------------------------------------------ operations

\* A variant in which a response goes to the coroutine that has waited longest,
\* here the one with the least index.
AwaiterInIssueOrder(r) ==
  CHOOSE c \in 1..MaxCalls :
    /\ calls[c].pc = "awaiting"
    /\ \A d \in 1..MaxCalls : calls[d].pc = "awaiting" => c <= d

\* The coroutine that awaits the response to request r.
Awaiter(r) == r.id

\* A public operation up to its await: the call of _get, the params and url,
\* and client.get, which sends the request or raises on a closed client.
Invoke(c, op, arg, kw) ==
  LET call == GetCall(op, arg, kw)
      params == get_params(call.params, token)
      url == get_url(api_url, call.endpoint)
      started == [Idle EXCEPT !.op = op, !.arg = arg, !.kw = kw,
                              !.url = url, !.params = params]
  IN /\ calls[c].pc = "idle"
     /\ IF CanSend(client)
        THEN /\ client' = "OPENED"
             /\ net' = net \cup {[id |-> c, url |-> url, params |-> params]}
             /\ calls' = [calls EXCEPT ![c] =
                            [started EXCEPT !.pc = "awaiting", !.sent = 1]]
        ELSE /\ calls' = [calls EXCEPT ![c] =
                            [started EXCEPT !.pc = "failed", !.error = ClosedError]]
             /\ UNCHANGED <<client, net>>
     /\ UNCHANGED <<ctor_url, api_url, token, released, depth, bound, exitKind,
                    closeCalls, scopeEntries, scopeExits>>

\* The response to request r arrives: _get checks and decodes it, and the
\* operation builds its result, or an exception ends it.
Respond(r, response) ==
  LET c == Awaiter(r)
      out == Complete(calls[c].op, response)
  IN /\ r \in net
     /\ calls[c].pc = "awaiting"
     /\ net' = net \ {r}
     /\ calls' = [calls EXCEPT ![c] =
                    [@ EXCEPT !.pc = IF out.ok THEN "done" ELSE "failed",
                              !.response = response,
                              !.result = out.value,
                              !.error = out.error]]
     /\ UNCHANGED <<ctor_url, api_url, token, client, released, depth, bound,
                    exitKind, closeCalls, scopeEntries, scopeExits>>

\* Request r fails in the transport (no connection, a timeout): client.get
\* raises, and nothing of _get runs after it.
TransportError(r) ==
  LET c == Awaiter(r)
  IN /\ r \in net
     /\ calls[c].pc = "awaiting"
     /\ net' = net \ {r}
     /\ calls' = [calls EXCEPT ![c] =
                    [@ EXCEPT !.pc = "failed",
                              !.error = [type |-> "TransportError", status |-> 0]]]
     /\ UNCHANGED <<ctor_url, api_url, token, client, released, depth, bound,
                    exitKind, closeCalls, scopeEntries, scopeExits>>

\* The caller takes the operation's result, or handles its exception.
Return(c) ==
  /\ calls[c].pc \in {"done", "failed"}
  /\ calls' = [calls EXCEPT ![c] = Idle]
  /\ UNCHANGED <<ctor_url, api_url, token, client, released, depth, bound,
                 exitKind, closeCalls, scopeEntries, scopeExits, net>>

\* httpx AsyncClient.aclose() on a client in state st with n releases so far.
aclose(st, n) ==
  [state |-> "CLOSED", released |-> IF st # "CLOSED" THEN n + 1 ELSE n]

\* APIClient.close().
close ==
  /\ client' = aclose(client, released).state
  /\ released' = aclose(client, released).released

\* A manual close().
Close ==
  /\ closeCalls < MaxCloses
  /\ closeCalls' = closeCalls + 1
  /\ close
  /\ UNCHANGED <<ctor_url, api_url, token, depth, bound, exitKind,
                 scopeEntries, scopeExits, calls, net>>

\* A variant of __aenter__ without its return statement.
aenter_no_return(self) == "None"

\* APIClient.__aenter__: what it returns.
aenter(self) == self

\* A variant of scope entry that builds a fresh httpx client.
ScopeEnterReopen ==
  /\ scopeEntries < MaxScopes
  /\ scopeEntries' = scopeEntries + 1
  /\ depth' = depth + 1
  /\ bound' = Self
  /\ client' = "UNOPENED"
  /\ UNCHANGED <<ctor_url, api_url, token, released, exitKind,
                 closeCalls, scopeExits, calls, net>>

\* Scope entry (async with client).
ScopeEnter ==
  /\ scopeEntries < MaxScopes
  /\ scopeEntries' = scopeEntries + 1
  /\ depth' = depth + 1
  /\ bound' = aenter(Self)
  /\ UNCHANGED <<ctor_url, api_url, token, client, released, exitKind,
                 closeCalls, scopeExits, calls, net>>

\* A variant of __aexit__ that does not close the client.
ScopeExitNoClose ==
  /\ depth > 0
  /\ \A c \in SeqCalls : calls[c].pc \in {"idle", "done"}
  /\ depth' = depth - 1
  /\ scopeExits' = scopeExits + 1
  /\ exitKind' = [how |-> "normal", found |-> client]
  /\ UNCHANGED <<ctor_url, api_url, token, client, released, bound, closeCalls,
                 scopeEntries, calls, net>>

\* APIClient.__aexit__ when the scope's body has finished.
ScopeExitNormal ==
  /\ depth > 0
  /\ \A c \in SeqCalls : calls[c].pc \in {"idle", "done"}
  /\ depth' = depth - 1
  /\ scopeExits' = scopeExits + 1
  /\ exitKind' = [how |-> "normal", found |-> client]
  /\ close
  /\ UNCHANGED <<ctor_url, api_url, token, bound, closeCalls, scopeEntries,
                 calls, net>>

\* APIClient.__aexit__ when an operation's exception leaves the scope's body:
\* the client is closed and the exception goes on to the scope's caller.
ScopeExitOnFailure ==
  /\ depth > 0
  /\ \E c \in SeqCalls :
       /\ calls[c].pc = "failed"
       /\ calls' = [calls EXCEPT ![c] = Idle]
  /\ depth' = depth - 1
  /\ scopeExits' = scopeExits + 1
  /\ exitKind' = [how |-> "failure", found |-> client]
  /\ close
  /\ UNCHANGED <<ctor_url, api_url, token, bound, closeCalls, scopeEntries, net>>

\* ------------------------------------------------------- specifications

\* One caller that awaits each operation before the next, any server.
Next ==
  \/ \E c \in SeqCalls : \E op \in Ops : \E arg \in Args(op) : \E kw \in Kwargs(op) :
       Invoke(c, op, arg, kw)
  \/ \E r \in net : \E response \in Responses(calls[Awaiter(r)].op) :
       Respond(r, response)
  \/ \E r \in net : TransportError(r)
  \/ \E c \in SeqCalls : Return(c)
  \/ Close
  \/ ScopeEnter
  \/ ScopeExitNormal
  \/ ScopeExitOnFailure

Spec == Init /\ [][Next]_vars

\* The operation whose endpoint the url of a request names.
Route(url) ==
  CHOOSE op \in Ops :
    \E arg \in Args(op) : url = get_url(api_url, GetCall(op, arg, Empty).endpoint)

\* A recording fixture server: it answers each request with success and a body
\* of the shape the operation expects, which repeats the request it answers.
FixtureJson(r) ==
  LET op == Route(r.url)
  IN CASE op = "list_data_sources" -> [datasources |-> <<DataSourceJson("d1")>>]
       [] op = "list_pipes" -> [pipes |-> <<PipeJson("p1")>>]
       [] op = "get_pipe_data" ->
            [meta |-> <<>>, data |-> <<r.params>>, rows |-> "1",
             statistics |-> [url |-> r.url]]
       [] OTHER -> [url |-> r.url, params |-> r.params]

FixtureResponse(r) == [status |-> 200, valid |-> TRUE, json |-> FixtureJson(r)]

\* Several callers on one open client, the fixture server answering the
\* requests in flight in any order.
NextConc ==
  \/ \E c \in 1..MaxCalls : \E op \in Ops : \E arg \in Args(op) : \E kw \in Kwargs(op) :
       Invoke(c, op, arg, kw)
  \/ \E r \in net : Respond(r, FixtureResponse(r))
  \/ \E r \in net : TransportError(r)
  \/ \E c \in 1..MaxCalls : Return(c)

\* The concurrent callers share a client built from one url.
InitConc == Init /\ ctor_url = <<"a", "/", "/">>

SpecConc == InitConc /\ [][NextConc]_vars

\* ---------------------------------------------------------------- claims

\* A coroutine whose operation has sent its request.
Sent(c) == calls[c].pc = "awaiting" \/ calls[c].response.status # 0
             \/ calls[c].error.type = "TransportError"

\* The step starts an operation on coroutine c.
Starts(c) == calls[c].pc = "idle" /\ calls'[c].pc # "idle"

\* C1: every request carries a token parameter equal to the token the client
\* was constructed with, whatever the operation and the caller's parameters,
\* also when get_pipe_data is given a keyword argument named token.
C1_TokenIsClientToken ==
  /\ \A r \in net : "token" \in DOMAIN r.params /\ r.params["token"] = token
  /\ \A c \in 1..MaxCalls :
       Sent(c) => "token" \in DOMAIN calls[c].params /\ calls[c].params["token"] = token

C1_Witness ==
  \E r \in net :
    /\ calls[r.id].op = "get_pipe_data"
    /\ "token" \in DOMAIN calls[r.id].kw
    /\ calls[r.id].kw["token"] # token

\* C2: once the connection resource has been released, an operation that is
\* invoked fails at once with the closed-client error: it sends no request,
\* returns no value and does not wait, whatever happened before.
C2_FailsAfterRelease ==
  [][\A c \in 1..MaxCalls :
       (released > 0 /\ Starts(c)) =>
         /\ calls'[c].pc = "failed"
         /\ calls'[c].error = ClosedError
         /\ calls'[c].sent = 0
         /\ net' = net]_vars

C2_Witness ==
  /\ released > 0
  /\ scopeEntries = MaxScopes
  /\ depth > 0
  /\ \E c \in 1..MaxCalls :
       calls[c].pc = "failed" /\ calls[c].error = ClosedError /\ calls[c].sent = 0

\* C3: a scope exit leaves the connection resource released exactly once,
\* whether the body ended normally or with an operation's failure, and also
\* when close() was called before the exit.
C3_ReleasedOnceAtExit ==
  /\ released <= 1
  /\ scopeExits > 0 => released = 1

C3_Witness ==
  /\ exitKind = [how |-> "failure", found |-> "CLOSED"]
  /\ closeCalls > 0
  /\ scopeExits = 1
  /\ released = 1

\* C4, as claimed: every scope entry returns the client ready for use, also an
\* entry made after an earlier scope exit or manual close.
C4_EntryAlwaysReady ==
  [][scopeEntries' > scopeEntries => (bound' = Self /\ CanSend(client'))]_vars

\* C4, amended: a scope entry returns the same client object and changes
\* nothing of its connection; the client is ready for use exactly when its
\* connection resource has never been released, and then an operation invoked
\* inside the scope sends its request.
C4_EntryReadyUnlessReleased ==
  [][/\ scopeEntries' > scopeEntries =>
          /\ bound' = Self
          /\ client' = client
          /\ released' = released
          /\ CanSend(client') <=> released = 0
     /\ \A c \in 1..MaxCalls :
          (depth > 0 /\ bound = Self /\ released = 0 /\ Starts(c)) =>
            calls'[c].pc = "awaiting"]_vars

C4_Witness ==
  /\ depth > 0
  /\ bound = Self
  /\ released = 0
  /\ \E c \in 1..MaxCalls : calls[c].pc = "awaiting"

\* C5: an operation whose request is answered with a status outside 2xx fails
\* with an HTTP error carrying that status, never with a decode or
\* missing-field error, and returns nothing, whatever the body is.
C5_StatusErrorFirst ==
  \A c \in 1..MaxCalls :
    (calls[c].response.status # 0 /\ calls[c].response.status \notin 200..299) =>
      /\ calls[c].pc = "failed"
      /\ calls[c].error = [type |-> "HTTPStatusError", status |-> calls[c].response.status]
      /\ calls[c].result = Empty

C5_Witness ==
  \E c \in 1..MaxCalls :
    /\ calls[c].op = "list_data_sources"
    /\ calls[c].response.status = 404
    /\ ~calls[c].response.valid
    /\ calls[c].pc = "failed"

\* The endpoint table: the path and the fixed parameters of an operation.
TablePath(op, arg) ==
  CASE op = "list_data_sources" -> "v0/datasources"
    [] op = "get_data_source" -> "v0/datasources/" \o arg
    [] op = "list_pipes" -> "v0/pipes"
    [] op = "get_pipe" -> "v0/pipes/" \o arg
    [] op = "get_pipe_data" -> "v0/pipes/" \o arg \o ".json"
    [] op = "run_select_query" -> "v0/sql"

TableParams(op, arg, kw) ==
  CASE op = "list_data_sources" -> [attrs |-> "id,name,description,columns"]
    [] op = "get_data_source" -> [debug |-> "columns", include_workspace_names |-> "true"]
    [] op = "list_pipes" -> [attrs |-> "id,name,description,type,endpoint"]
    [] op = "get_pipe" -> Empty
    [] op = "get_pipe_data" -> kw
    [] op = "run_select_query" -> [q |-> arg \o " FORMAT JSON"]

\* The url and parameters of coroutine c's request are those of the table for
\* its own operation and arguments, plus the token and nothing else.
RequestOfOwnArguments(c) ==
  LET fixed == TableParams(calls[c].op, calls[c].arg, calls[c].kw)
  IN /\ calls[c].url = api_url \o "/" \o TablePath(calls[c].op, calls[c].arg)
     /\ DOMAIN calls[c].params = DOMAIN fixed \cup {"token"}
     /\ \A k \in DOMAIN fixed \ {"token"} : calls[c].params[k] = fixed[k]
     /\ calls[c].params["token"] = token

\* C6: an operation invoked on an open client issues exactly one GET request,
\* to the url and with the fixed parameters of the endpoint table plus the
\* token only; it is not sent again after a failure.
C6_OneRequestPerTable ==
  \A c \in 1..MaxCalls :
    LET mine == {r \in net : r.id = c}
    IN /\ Sent(c) => calls[c].sent = 1 /\ RequestOfOwnArguments(c)
       /\ calls[c].pc = "awaiting" =>
            mine = {[id |-> c, url |-> calls[c].url, params |-> calls[c].params]}
       /\ calls[c].pc # "awaiting" => mine = {}
       /\ calls[c].sent <= 1

C6_Witness ==
  \E c \in 1..MaxCalls :
    /\ calls[c].op = "run_select_query"
    /\ calls[c].arg = "SELECT 1"
    /\ calls[c].pc = "failed"
    /\ calls[c].error.type = "HTTPStatusError"
    /\ calls[c].sent = 1
    /\ calls[c].params = [q |-> "SELECT 1 FORMAT JSON", token |-> token]

\* A "datasources" element with every required field, at each level.
HasRequiredFields(e) ==
  /\ {"id", "name", "engine", "columns", "indexes", "new_columns_detected",
      "quarantine_rows"} \subseteq DOMAIN e
  /\ EngineFields \subseteq DOMAIN e["engine"]
  /\ \A i \in DOMAIN e["columns"] : ColumnFields \subseteq DOMAIN e["columns"][i]

\* A well-formed "datasources" element: the fields of the records, no other in
\* the nested objects.
WellFormed(e) ==
  /\ HasRequiredFields(e)
  /\ DOMAIN e["engine"] = EngineFields
  /\ \A i \in DOMAIN e["columns"] : DOMAIN e["columns"][i] = ColumnFields

\* Coroutine c has received a success response whose body decoded.
Decoded(c) == calls[c].response.status = 200 /\ calls[c].response.valid

\* C7: list_data_sources, answered with success and {"datasources": [e1..eN]}
\* of well-formed entries, returns N records, the i-th built from the i-th
\* entry with every field equal to the entry's; if an entry lacks a required
\* field the operation fails and returns nothing.
C7_ListDataSources ==
  \A c \in 1..MaxCalls :
    (/\ calls[c].op = "list_data_sources"
     /\ Decoded(c)
     /\ "datasources" \in DOMAIN calls[c].response.json) =>
      LET es == calls[c].response.json["datasources"]
          rs == calls[c].result
      IN /\ (\A i \in DOMAIN es : WellFormed(es[i])) =>
              /\ calls[c].pc = "done"
              /\ Len(rs) = Len(es)
              /\ \A i \in DOMAIN es :
                   /\ DOMAIN rs[i] = {"id", "name", "engine", "columns", "indexes",
                                      "new_columns_detected", "quarantine_rows"}
                   /\ \A f \in DOMAIN rs[i] : rs[i][f] = es[i][f]
         /\ (\E i \in DOMAIN es : ~HasRequiredFields(es[i])) =>
              calls[c].pc = "failed" /\ rs = Empty

C7_Witness ==
  \E c \in 1..MaxCalls :
    /\ calls[c].op = "list_data_sources"
    /\ calls[c].pc = "done"
    /\ Len(calls[c].result) = MaxEntries
    /\ calls[c].result[1].id = "d2"
    /\ calls[c].result[MaxEntries].id = "d1"

\* The record objects of a decoded body: <<record type's fields, object>>.
Objects(c) ==
  LET json == calls[c].response.json
  IN CASE calls[c].op = "get_pipe_data" -> {<<PipeDataFields, json>>}
       [] calls[c].op = "list_pipes" ->
            {<<PipeFields, json["pipes"][i]>> : i \in DOMAIN json["pipes"]}
       [] OTHER -> {}

\* Coroutine c received a body from which records are built.
BuildsRecords(c) ==
  /\ Decoded(c)
  /\ \/ calls[c].op = "get_pipe_data"
     \/ calls[c].op = "list_pipes" /\ "pipes" \in DOMAIN calls[c].response.json
     \/ calls[c].op = "list_data_sources"
          /\ "datasources" \in DOMAIN calls[c].response.json

\* C8, as claimed: building the records fails if a required field is absent,
\* and succeeds, ignoring the surplus, if every required field is present.
C8_ExtraFieldsIgnored ==
  \A c \in 1..MaxCalls :
    BuildsRecords(c) =>
      LET complete ==
            IF calls[c].op = "list_data_sources"
            THEN \A i \in DOMAIN calls[c].response.json["datasources"] :
                   HasRequiredFields(calls[c].response.json["datasources"][i])
            ELSE \A o \in Objects(c) : o[1] \subseteq DOMAIN o[2]
      IN calls[c].pc = (IF complete THEN "done" ELSE "failed")

\* C8, amended: building a record fails if a required field is absent; a field
\* the record type does not declare is ignored only at the top level of a
\* DataSource object, and makes the construction of an Engine, a Column, a
\* Pipe or a PipeData fail.
C8_ExtraFieldsRejected ==
  \A c \in 1..MaxCalls :
    BuildsRecords(c) =>
      LET exact ==
            IF calls[c].op = "list_data_sources"
            THEN \A i \in DOMAIN calls[c].response.json["datasources"] :
                   WellFormed(calls[c].response.json["datasources"][i])
            ELSE \A o \in Objects(c) : DOMAIN o[2] = o[1]
      IN /\ calls[c].pc = (IF exact THEN "done" ELSE "failed")
         /\ ~exact => calls[c].error.type \in {"KeyError", "TypeError"}
         /\ (calls[c].op # "list_data_sources" /\ ~exact) =>
              calls[c].error.type = "TypeError"

C8_Witness ==
  \E c \in 1..MaxCalls :
    /\ calls[c].op = "list_data_sources"
    /\ calls[c].pc = "done"
    /\ Len(calls[c].result) = 1
    /\ "description" \in DOMAIN calls[c].response.json["datasources"][1]
    /\ "description" \notin DOMAIN calls[c].result[1]

\* C9: construction and scope entry issue no request: a request appears only
\* in a step that starts an operation; and the base url (the constructor's url
\* without its trailing slashes) and the token never change.
C9_NoRequestUntilInvoked ==
  /\ net = {}
  /\ [](\E n \in 0..Len(ctor_url) :
          /\ api_url = Str(SubSeq(ctor_url, 1, n))
          /\ n > 0 => ctor_url[n] # "/"
          /\ \A i \in (n + 1)..Len(ctor_url) : ctor_url[i] = "/")
  /\ [][/\ api_url' = api_url
        /\ token' = token
        /\ ~(net' \subseteq net) =>
             \E c \in 1..MaxCalls : Starts(c) /\ calls'[c].pc = "awaiting"]_vars

C9_Witness ==
  /\ ctor_url = <<"a", "/", "/">>
  /\ api_url = "a"
  /\ scopeEntries > 0
  /\ closeCalls = 0
  /\ client = "UNOPENED"
  /\ net = {}

\* What the fixture server's answer to coroutine c's own request decodes to.
OwnResult(c) ==
  LET url == api_url \o "/" \o TablePath(calls[c].op, calls[c].arg)
      params == SetKey(TableParams(calls[c].op, calls[c].arg, calls[c].kw),
                       "token", token)
  IN CASE calls[c].op = "list_data_sources" -> <<DataSourceJson("d1")>>
       [] calls[c].op = "list_pipes" -> <<PipeJson("p1")>>
       [] calls[c].op = "get_pipe_data" ->
            [meta |-> <<>>, data |-> <<params>>, rows |-> "1",
             statistics |-> [url |-> url]]
       [] OTHER -> [url |-> url, params |-> params]

\* C10: with several operations in flight on one open client and the responses
\* arriving in any order, each operation's request is built from its own
\* arguments and the token, its result is decoded from the response to its own
\* request, and a step of one operation changes no other operation's state nor
\* the client's url and token.
C10_Isolation ==
  /\ [](\A c \in 1..MaxCalls :
          /\ Sent(c) => RequestOfOwnArguments(c)
          /\ calls[c].pc = "done" => calls[c].result = OwnResult(c))
  /\ [][/\ api_url' = api_url
        /\ token' = token
        /\ \A c, d \in 1..MaxCalls :
             (c # d /\ calls'[c].pc # calls[c].pc) =>
               /\ calls'[d].pc = calls[d].pc
               /\ calls'[d].op = calls[d].op
               /\ calls'[d].arg = calls[d].arg
               /\ calls'[d].url = calls[d].url
               /\ calls'[d].params = calls[d].params]_vars

C10_Witness ==
  /\ calls[1].pc = "awaiting"
  /\ calls[2].pc = "done"
  /\ calls[1].op = "get_pipe_data"
  /\ calls[2].op = "get_pipe_data"
  /\ calls[1].arg # calls[2].arg
  /\ calls[2].kw # calls[1].kw

====
